---- MODULE Spec2Model ----
(***************************************************************************)
(* A model of src/src/main.rs: the git object store (blob / tree / commit  *)
(* objects, their envelope, the tree walk, and the commands of main).      *)
(* Bytes are naturals 0..255; a string is the sequence of its bytes.       *)
(***************************************************************************)
EXTENDS Naturals, Integers, Sequences, FiniteSets, TLC

(***************************************************************************)
(* Byte-string helpers                                                     *)
(***************************************************************************)
SP == <<32>>
NUL == <<0>>
LF == <<10>>
SLASH == <<47>>

\* s[from+1 .. to] with Rust's 0-based half-open slice s[from..to]
Slice(s, from, to) == SubSeq(s, from + 1, to)

\* Iterator::position over s.skip(start): 0-based offset from start, or -1
Position(s, start, b) ==
    IF \E i \in (start + 1)..Len(s) : s[i] = b
    THEN (CHOOSE i \in (start + 1)..Len(s) :
              s[i] = b /\ \A j \in (start + 1)..(i - 1) : s[j] # b) - 1 - start
    ELSE -1

\* the concatenation of pieces[lo..hi] (by halves, to keep the evaluation shallow)
RECURSIVE Flat(_, _, _)
Flat(pieces, lo, hi) ==
    IF lo > hi THEN <<>>
    ELSE IF lo = hi THEN pieces[lo]
    ELSE Flat(pieces, lo, (lo + hi) \div 2) \o Flat(pieces, (lo + hi) \div 2 + 1, hi)

Concat(pieces) == Flat(pieces, 1, Len(pieces))

\* the sum of vals[lo..hi] modulo modulus
RECURSIVE SumMod(_, _, _, _)
SumMod(vals, lo, hi, modulus) ==
    IF lo > hi THEN 0
    ELSE IF lo = hi THEN vals[lo] % modulus
    ELSE (SumMod(vals, lo, (lo + hi) \div 2, modulus)
          + SumMod(vals, (lo + hi) \div 2 + 1, hi, modulus)) % modulus

\* byte-lexicographic order of Rust's String (Ord for str)
RECURSIVE StrLess(_, _)
StrLess(a, b) ==
    IF b = <<>> THEN FALSE
    ELSE IF a = <<>> THEN TRUE
    ELSE IF Head(a) # Head(b) THEN Head(a) < Head(b)
    ELSE StrLess(Tail(a), Tail(b))

StrLeq(a, b) == a = b \/ StrLess(a, b)

(***************************************************************************)
(* Number formatting and parsing                                           *)
(***************************************************************************)
IsDigit(b) == b >= 48 /\ b <= 57

\* usize::to_string / u32::to_string
RECURSIVE to_string(_)
to_string(n) == IF n < 10 THEN <<48 + n>> ELSE to_string(n \div 10) \o <<48 + (n % 10)>>

RECURSIVE DigitsValue(_)
DigitsValue(s) == IF s = <<>> THEN 0 ELSE DigitsValue(SubSeq(s, 1, Len(s) - 1)) * 10 + (s[Len(s)] - 48)

\* str::parse::<usize>() / parse::<u32>(): an optional '+', then one or more
\* decimal digits; -1 stands for the Err.  (Values that overflow are out of
\* the model's range.)
parse_uint(s) ==
    LET d == IF s # <<>> /\ s[1] = 43 THEN Tail(s) ELSE s
    IN IF d = <<>> \/ Len(d) > 6 \/ \E i \in 1..Len(d) : ~IsDigit(d[i]) THEN -1 ELSE DigitsValue(d)

HexDigit(n) == IF n < 10 THEN 48 + n ELSE 87 + n

\* format!("{:02x}", b)
HexByte(b) == <<HexDigit(b \div 16), HexDigit(b % 16)>>

\* the digest rendered by format!("{:x}", ..) and by parse_as_tree's map/collect
to_hex(bs) == Concat([i \in 1..Len(bs) |-> HexByte(bs[i])])

\* value of one character in radix 16, -1 if it is no hex digit
HexValue(c) ==
    IF c >= 48 /\ c <= 57 THEN c - 48
    ELSE IF c >= 97 /\ c <= 102 THEN c - 87
    ELSE IF c >= 65 /\ c <= 70 THEN c - 55
    ELSE -1

\* u8::from_str_radix(s, 16) on a two-byte slice: -1 stands for the Err.
\* A leading '+' is accepted, as are upper-case digits.
from_str_radix16(s) ==
    LET d == IF s # <<>> /\ s[1] = 43 THEN Tail(s) ELSE s
    IN IF d = <<>> \/ \E i \in 1..Len(d) : HexValue(d[i]) < 0 THEN -1
       ELSE IF Len(d) = 1 THEN HexValue(d[1])
       ELSE HexValue(d[1]) * 16 + HexValue(d[2])

DigestLen == 20

\* Sha1Hash::as_bytes: [ok, bytes]; ok = FALSE is the panic (slice out of
\* range, or "invalid hex in sha-1 string")
as_bytes(h) ==
    IF Len(h) < 2 * DigestLen THEN [ok |-> FALSE, bytes |-> <<>>]
    ELSE LET vals == [i \in 1..DigestLen |-> from_str_radix16(SubSeq(h, 2 * i - 1, 2 * i))]
         IN IF \E i \in 1..DigestLen : vals[i] < 0
            THEN [ok |-> FALSE, bytes |-> <<>>]
            ELSE [ok |-> TRUE, bytes |-> vals]

\* "40 lowercase hex characters": the canonical rendering of a digest
IsHexDigest(h) ==
    /\ Len(h) = 2 * DigestLen
    /\ \A i \in 1..Len(h) : (h[i] >= 48 /\ h[i] <= 57) \/ (h[i] >= 97 /\ h[i] <= 102)

(***************************************************************************)
(* The digest.  SHA-1 itself is a library; it is modelled by a fixed       *)
(* deterministic 20-byte function of the whole input (two position-        *)
(* weighted checksums spread over 20 bytes).                               *)
(***************************************************************************)
Sha1(bs) ==
    LET n == Len(bs)
        h1 == (SumMod([i \in 1..n |-> (bs[i] + 1) * ((i * i + 31 * i + 7) % 65521)],
                      1, n, 65521) + 7 * n + 7) % 65521
        h2 == (SumMod([i \in 1..n |-> (bs[i] + 1) * ((i * i * i + 131 * i + 11) % 65519)],
                      1, n, 65519) + 13 * n + 11) % 65519
    IN [i \in 1..DigestLen |->
            IF i = 1 THEN h1 \div 256
            ELSE IF i = 2 THEN h1 % 256
            ELSE IF i = 3 THEN h2 \div 256
            ELSE IF i = 4 THEN h2 % 256
            ELSE ((h1 + 1) * (i + 7) + (h2 + 1) * (i * i + 3)) % 256]

(***************************************************************************)
(* The compression codec.  flate2's encoder is a library; it is modelled   *)
(* by the zlib container with one stored deflate block and its Adler-32.   *)
(***************************************************************************)
\* a = 1 + the sum of the bytes, b = the sum of the running values of a
Adler32(bs) ==
    LET n == Len(bs)
        a == (1 + SumMod(bs, 1, n, 65521)) % 65521
        b == (n + SumMod([i \in 1..n |-> (n - i + 1) * bs[i]], 1, n, 65521)) % 65521
    IN <<b \div 256, b % 256, a \div 256, a % 256>>

ZlibEncode(bs) ==
    LET n == Len(bs)
    IN <<120, 1, 1, n % 256, n \div 256, (65535 - n) % 256, (65535 - n) \div 256>>
       \o bs \o Adler32(bs)

\* [ok, data]; ok = FALSE is read_to_end's Err ("file could not be read")
ZlibDecode(z) ==
    LET bad == [ok |-> FALSE, data |-> <<>>]
    IN IF Len(z) < 11 THEN bad
       ELSE LET n == z[4] + 256 * z[5]
                data == SubSeq(z, 8, Len(z) - 4)
            IN IF /\ z[1] = 120 /\ z[2] = 1 /\ z[3] = 1
                  /\ Len(z) = n + 11
                  /\ z[6] + 256 * z[7] = 65535 - n
                  /\ SubSeq(z, Len(z) - 3, Len(z)) = Adler32(data)
               THEN [ok |-> TRUE, data |-> data]
               ELSE bad

(***************************************************************************)
(* UTF-8: str::from_utf8 and the lossy conversions.  One- to three-byte    *)
(* sequences are recognised; every other byte is invalid.  A lead byte is  *)
(* never a continuation byte, so whether the byte at i is part of a        *)
(* well-formed sequence is decided by its two predecessors and successors. *)
(***************************************************************************)
IsCont(b) == b >= 128 /\ b <= 191

\* length of the well-formed sequence that starts at s[i], 0 if there is none
Utf8SeqLen(s, i) ==
    IF s[i] < 128 THEN 1
    ELSE IF s[i] >= 194 /\ s[i] <= 223 /\ i + 1 <= Len(s) /\ IsCont(s[i + 1]) THEN 2
    ELSE IF s[i] >= 225 /\ s[i] <= 239 /\ s[i] # 237 /\ i + 2 <= Len(s)
            /\ IsCont(s[i + 1]) /\ IsCont(s[i + 2]) THEN 3
    ELSE 0

\* the byte at i belongs to a well-formed sequence
Utf8Good(s, i) ==
    IF ~IsCont(s[i]) THEN Utf8SeqLen(s, i) > 0
    ELSE \/ i >= 2 /\ s[i - 1] >= 128 /\ Utf8SeqLen(s, i - 1) >= 2
         \/ i >= 3 /\ s[i - 2] >= 128 /\ Utf8SeqLen(s, i - 2) = 3

\* str::from_utf8(s).is_ok()
from_utf8_ok(s) == \A i \in 1..Len(s) : Utf8Good(s, i)

REPLACEMENT == <<239, 191, 189>>

\* String::from_utf8_lossy / OsStr::to_string_lossy: every invalid byte
\* becomes U+FFFD
to_string_lossy(s) ==
    Concat([i \in 1..Len(s) |-> IF Utf8Good(s, i) THEN <<s[i]>> ELSE REPLACEMENT])

(***************************************************************************)
(* GitObjectKind, GitObject, TreeEntry                                     *)
(***************************************************************************)
Kinds == {"blob", "tree", "commit"}

as_str(kind) ==
    IF kind = "blob" THEN <<98, 108, 111, 98>>
    ELSE IF kind = "tree" THEN <<116, 114, 101, 101>>
    ELSE <<99, 111, 109, 109, 105, 116>>

GitObject(kind, size, content) == [kind |-> kind, size |-> size, content |-> content]

\* GitObject::serialize: "<kind> <size>\0<content>"
serialize(obj) == as_str(obj.kind) \o SP \o to_string(obj.size) \o NUL \o obj.content

\* GitObject::hash: the hex digest of the whole envelope
hash(obj) == to_hex(Sha1(serialize(obj)))

\* ".git/objects/"
ObjectsDir == <<46, 103, 105, 116, 47, 111, 98, 106, 101, 99, 116, 115, 47>>

\* format!(".git/objects/{dir}/{file}") with (dir, file) = (&hash[..2], &hash[2..])
ObjectPath(h) == ObjectsDir \o Slice(h, 0, 2) \o SLASH \o Slice(h, 2, Len(h))

\* a write that opens the object file for appending instead of replacing it
write_append(st, obj) ==
    LET p == ObjectPath(hash(obj))
    IN (p :> ((IF p \in DOMAIN st THEN st[p] ELSE <<>>) \o ZlibEncode(serialize(obj)))) @@ st

\* GitObject::write: the store after the write (fs::write creates or replaces the file)
write(st, obj) == (ObjectPath(hash(obj)) :> ZlibEncode(serialize(obj))) @@ st

\* TreeEntry::serialize: "<mode> <name>\0<20 raw bytes>"; the hash of an entry
\* is always one that GitObject::hash produced
TreeEntry_serialize(e) == to_string(e.mode) \o SP \o e.name \o NUL \o as_bytes(e.hash).bytes

Panic(msg) == [ok |-> FALSE, err |-> msg, kind |-> "none", size |-> 0, content |-> <<>>]

\* the parse of the decompressed file in From<Sha1Hash>
ParseEnvelope(buffer) ==
    LET space_idx == Position(buffer, 0, 32)
        null_idx == Position(buffer, 0, 0)
    IN IF space_idx < 0 THEN Panic("did not find kind delimiter")
       ELSE IF null_idx < 0 THEN Panic("did not find null characters")
       ELSE LET kind_str == Slice(buffer, 0, space_idx)
            IN IF ~from_utf8_ok(kind_str) THEN Panic("invalid utf-8 in kind")
               ELSE IF kind_str # as_str("blob") /\ kind_str # as_str("tree")
                    THEN Panic("invalid git object kind")
               ELSE IF space_idx + 1 > null_idx THEN Panic("slice index starts after end")
               ELSE LET size_str == Slice(buffer, space_idx + 1, null_idx)
                        size == parse_uint(size_str)
                    IN IF ~from_utf8_ok(size_str) THEN Panic("invalid utf-8 in size")
                       ELSE IF size < 0 THEN Panic("invalid size")
                       ELSE [ok |-> TRUE, err |-> "",
                             kind |-> IF kind_str = as_str("blob") THEN "blob" ELSE "tree",
                             size |-> size,
                             content |-> Slice(buffer, null_idx + 1, Len(buffer))]

\* impl From<Sha1Hash> for GitObject: load the object a hash string names
FromSha1Hash(st, h) ==
    IF Len(h) < 2 THEN Panic("byte index out of range")
    ELSE IF ObjectPath(h) \notin DOMAIN st THEN Panic("file could not be opened")
    ELSE LET z == ZlibDecode(st[ObjectPath(h)])
         IN IF ~z.ok THEN Panic("file could not be read") ELSE ParseEnvelope(z.data)

\* GitObject::parse_as_blob (its kind assertion is commented out)
parse_as_blob(obj) == to_string_lossy(obj.content)

TreeEntry(mode, kind, h, name) == [mode |-> mode, kind |-> kind, hash |-> h, name |-> name]

TreePanic(msg) == [ok |-> FALSE, err |-> msg, entries |-> <<>>]

\* the while loop of GitObject::parse_as_tree, from cursor start_idx
RECURSIVE ParseEntries(_, _, _, _)
ParseEntries(st, obj, start_idx, result) ==
    IF ~(start_idx < obj.size) THEN [ok |-> TRUE, err |-> "", entries |-> result]
    ELSE
    LET c == obj.content
        sp == Position(c, start_idx, 32)
        nl == Position(c, start_idx, 0)
        space_idx == start_idx + sp
        null_idx == start_idx + nl
        end_idx == null_idx + 1 + DigestLen
    IN IF sp < 0 THEN TreePanic("did not find space character")
       ELSE IF nl < 0 THEN TreePanic("did not find null charcter")
       ELSE IF ~from_utf8_ok(Slice(c, start_idx, space_idx)) THEN TreePanic("invalid bytes in mode")
       ELSE IF parse_uint(Slice(c, start_idx, space_idx)) < 0 THEN TreePanic("unable to parse as integer")
       ELSE IF space_idx + 1 > null_idx THEN TreePanic("slice index starts after end")
       ELSE IF ~from_utf8_ok(Slice(c, space_idx + 1, null_idx)) THEN TreePanic("invalid bytes in mode")
       ELSE IF end_idx > Len(c) THEN TreePanic("range end index out of range")
       ELSE LET h == to_hex(Slice(c, null_idx + 1, end_idx))
                child == FromSha1Hash(st, h)
            IN IF ~child.ok THEN TreePanic(child.err)
               ELSE ParseEntries(st, obj, end_idx,
                        Append(result, TreeEntry(parse_uint(Slice(c, start_idx, space_idx)),
                                                 child.kind, h, Slice(c, space_idx + 1, null_idx))))

\* GitObject::parse_as_tree: [ok, err, entries]
parse_as_tree(st, obj) ==
    IF obj.kind # "tree" THEN TreePanic("assertion failed")
    ELSE ParseEntries(st, obj, 0, <<>>)

(***************************************************************************)
(* The working directory.  A directory is a function from the raw names of *)
(* its children to nodes; a node is a file with content or a directory.    *)
(***************************************************************************)
EmptyDir == [n \in {} |-> 0]

FileNode(content) == [dir |-> FALSE, content |-> content, children |-> EmptyDir]
DirNode(children) == [dir |-> TRUE, content |-> <<>>, children |-> children]

RECURSIVE NodeCount(_)
NodeCount(d) ==
    IF DOMAIN d = {} THEN 0
    ELSE LET n == CHOOSE n \in DOMAIN d : TRUE
             rest == [m \in DOMAIN d \ {n} |-> d[m]]
         IN 1 + (IF d[n].dir THEN NodeCount(d[n].children) ELSE 0) + NodeCount(rest)

\* the node a path (a sequence of raw names) leads to, from directory d
RECURSIVE NodeAt(_, _)
NodeAt(d, path) ==
    IF path = <<>> THEN DirNode(d)
    ELSE IF Len(path) = 1 THEN d[Head(path)]
    ELSE NodeAt(d[Head(path)].children, Tail(path))

\* Path::is_file / Path::is_dir
is_file(d, path) == ~NodeAt(d, path).dir
is_dir(d, path) == NodeAt(d, path).dir

\* fs::read(path)
read(d, path) == NodeAt(d, path).content

\* the names fs::read_dir(path) yields, as a set: the listing order is the
\* file system's choice
read_dir(d, path) == DOMAIN NodeAt(d, path).children

\* all orders in which a listing can enumerate the names in S
Perms(S) == {q \in [1..Cardinality(S) -> S] : \A i, j \in 1..Cardinality(S) : q[i] = q[j] => i = j}

DOT_GIT == <<46, 103, 105, 116>>

(***************************************************************************)
(* impl From<&Path> for GitObject                                          *)
(***************************************************************************)
FILE_MODE == 100644
DIR_MODE == 40000

\* the Blob branch: kind, content = fs::read(path), size = content.len()
BlobFromPath(d, path) == GitObject("blob", Len(read(d, path)), read(d, path))

\* Vec::sort_by_key(|entry| entry.name.clone()): a stable sort by name
RECURSIVE InsertByName(_, _)
InsertByName(sorted, e) ==
    IF sorted = <<>> THEN <<e>>
    ELSE IF StrLess(e.name, Head(sorted).name) THEN <<e>> \o sorted
    ELSE <<Head(sorted)>> \o InsertByName(Tail(sorted), e)

RECURSIVE sort_by_key(_)
sort_by_key(es) ==
    IF es = <<>> THEN <<>>
    ELSE InsertByName(sort_by_key(SubSeq(es, 1, Len(es) - 1)), es[Len(es)])

SerializeEntries(es) == Concat([i \in 1..Len(es) |-> TreeEntry_serialize(es[i])])

\* the end of the Tree branch: sort the collected entries, concatenate their
\* encodings, size = content.len()
TreeFromEntries(tree_entries) ==
    LET content == SerializeEntries(sort_by_key(tree_entries))
    IN GitObject("tree", Len(content), content)

\* what the child loop does with one directory entry
IsSkippedName(raw) == to_string_lossy(raw) = DOT_GIT
IsEmptyDir(d, path) == is_dir(d, path) /\ read_dir(d, path) = {}
ModeOf(d, path) == IF is_dir(d, path) THEN DIR_MODE ELSE FILE_MODE

(***************************************************************************)
(* impl From<(Sha1Hash, Option<Sha1Hash>, String)> for GitObject           *)
(***************************************************************************)
TruncDiv(a, b) == IF a >= 0 THEN a \div b ELSE 0 - ((0 - a) \div b)
Abs(a) == IF a >= 0 THEN a ELSE 0 - a

\* format!("{:02}", n) for n >= 0
Pad2(n) == IF n < 10 THEN <<48>> \o to_string(n) ELSE to_string(n)

\* get_timestamp_str, for the clock reading (timestamp, offset in seconds):
\* format!("{} {:+03}{:02}", timestamp, offset / 3600, (offset.abs() % 3600) / 60)
get_timestamp_str(timestamp, offset) ==
    LET hours == TruncDiv(offset, 3600)
        minutes == (Abs(offset) % 3600) \div 60
    IN to_string(timestamp) \o SP
       \o (IF hours >= 0 THEN <<43>> ELSE <<45>>) \o Pad2(Abs(hours)) \o Pad2(minutes)

TREE_SP == <<116, 114, 101, 101, 32>>
PARENT_SP == <<112, 97, 114, 101, 110, 116, 32>>
AUTHOR == <<97, 117, 116, 104, 111, 114>>
COMMITTER == <<99, 111, 109, 109, 105, 116, 116, 101, 114>>
\* " fsiraj <fsiraj@git.com> "
IDENTITY == <<32, 102, 115, 105, 114, 97, 106, 32, 60, 102, 115, 105, 114, 97, 106,
              64, 103, 105, 116, 46, 99, 111, 109, 62, 32>>

None == [some |-> FALSE, hash |-> <<>>]
Some(h) == [some |-> TRUE, hash |-> h]

\* a commit built without the blank line between the header and the message
FromCommit_noblank(tree_hash, parent_hash, message, timestamp) ==
    LET content ==
            TREE_SP \o tree_hash \o LF
            \o (IF parent_hash.some THEN PARENT_SP \o parent_hash.hash \o LF ELSE <<>>)
            \o AUTHOR \o IDENTITY \o timestamp \o LF
            \o COMMITTER \o IDENTITY \o timestamp \o LF
            \o message
            \o LF
    IN GitObject("commit", Len(content), content)

\* the header lines, a blank line, the message and a line feed

FromCommit(tree_hash, parent_hash, message, timestamp) ==
    LET content ==
            TREE_SP \o tree_hash \o LF
            \o (IF parent_hash.some THEN PARENT_SP \o parent_hash.hash \o LF ELSE <<>>)
            \o AUTHOR \o IDENTITY \o timestamp \o LF
            \o COMMITTER \o IDENTITY \o timestamp \o LF
            \o LF
            \o message
            \o LF
    IN GitObject("commit", Len(content), content)

(***************************************************************************)
(* Bounds and input sets                                                   *)
(***************************************************************************)
\* most nodes (files and directories) in a walked working directory
MaxNodes == 2
\* most nodes in the working directory the commands run in
MaxCmdNodes == 2
\* most commit objects in the store
MaxCommits == 1

NAME_A == <<97>>
NAME_B == <<98>>
\* two names that are not UTF-8
NAME_FE == <<254>>
NAME_FF == <<255>>

Contents == {<<120>>, <<121>>}

RootNames == <<NAME_A, NAME_FE, NAME_FF>>
NestedNames == <<NAME_A, NAME_FE, NAME_FF, DOT_GIT>>

\* the directories of at most budget nodes whose children are named in names
\* and whose descendants below them are named in nested
RECURSIVE DirsOver(_, _, _)
DirsOver(names, nested, budget) ==
    IF names = <<>> \/ budget = 0 THEN {EmptyDir}
    ELSE LET n == Head(names)
             nodes == {FileNode(c) : c \in Contents}
                      \cup {DirNode(ch) : ch \in DirsOver(nested, nested, budget - 1)}
         IN DirsOver(Tail(names), nested, budget)
            \cup UNION {{(n :> x) @@ r :
                            r \in DirsOver(Tail(names), nested,
                                           budget - 1 - (IF x.dir THEN NodeCount(x.children) ELSE 0))}
                        : x \in nodes}

WalkDirs == DirsOver(RootNames, NestedNames, MaxNodes)
CmdDirs == DirsOver(<<NAME_A>>, <<NAME_A, NAME_B>>, MaxCmdNodes)
\* the working directories commit-tree runs in: one file, or a directory
\* that holds an empty directory
CommitDirs == {NAME_A :> FileNode(<<120>>), NAME_A :> DirNode(NAME_A :> DirNode(EmptyDir))}

\* the paths of the files below directory d
RECURSIVE FilePaths(_)
FilePaths(d) ==
    UNION {IF d[n].dir THEN {<<n>> \o q : q \in FilePaths(d[n].children)} ELSE {<<n>>}
           : n \in DOMAIN d}

\* strings that are no digest: too short, and 40 characters that are not hex
BadHashes == {<<97>>, [i \in 1..(2 * DigestLen) |-> 103]}

\* the digests the files of the store are named by
StoredHashes(st) ==
    {Slice(p, Len(ObjectsDir), Len(ObjectsDir) + 2) \o Slice(p, Len(ObjectsDir) + 3, Len(p))
     : p \in DOMAIN st}

HashArgs(st) == StoredHashes(st) \cup BadHashes

\* the digests commit-tree is given: those of stored objects, and a string
\* that is no digest
CommitArgs(st) == StoredHashes(st) \cup {NAME_A}

\* "init", and a message of two lines
Messages == {<<105, 110, 105, 116>>, <<97, 10, 98>>}

\* clock readings: (seconds since the epoch, zone offset in seconds)
Clock == {<<1700000000, 0 - 12600>>}

(***************************************************************************)
(* State                                                                   *)
(***************************************************************************)
VARIABLES
    fs,       \* the working directory (the program never changes it)
    store,    \* .git/objects: path of each object file |-> its bytes
    stack,    \* the recursion of From<&Path> during write-tree, innermost last
    out,      \* what the running or last run command did: arguments, outcome, output
    seen,     \* file |-> the digest the first "hash-object -w" printed for it
    written   \* history: the GitObjects passed to write() so far

vars == <<fs, store, stack, out, seen, written>>

EmptyStore == [p \in {} |-> <<>>]

Out(cmd, file, arg, parent, flag, ok, value, lines, existed, changed) ==
    [cmd |-> cmd, file |-> file, arg |-> arg, parent |-> parent, flag |-> flag,
     ok |-> ok, value |-> value, lines |-> lines, existed |-> existed, changed |-> changed]

NoOut == Out("none", <<>>, <<>>, None, FALSE, TRUE, <<>>, <<>>, FALSE, FALSE)

Idle == stack = <<>>

\* one activation of From<&Path> on a directory: the listing read_dir yields,
\* the part of it the loop has not reached yet, and tree_entries
Frame(path, listing) == [path |-> path, listing |-> listing, todo |-> listing, tree_entries |-> <<>>]

Top == stack[Len(stack)]

InitCommon ==
    /\ store = EmptyStore
    /\ stack = <<>>
    /\ out = NoOut
    /\ seen = [f \in {} |-> <<>>]
    /\ written = {}

Init == fs \in CmdDirs /\ InitCommon

InitWalk == fs \in WalkDirs /\ InitCommon

InitCommit == fs \in CommitDirs /\ InitCommon

(***************************************************************************)
(* main: hash-object, cat-file, ls-tree, commit-tree                       *)
(***************************************************************************)
\* Commands::HashObject { write, file }
HashObject(file, w) ==
    /\ Idle
    /\ LET git_object == BlobFromPath(fs, file)
           h == hash(git_object)
           st == IF w THEN write(store, git_object) ELSE store
       IN /\ store' = st
          /\ seen' = IF w /\ file \notin DOMAIN seen THEN (file :> h) @@ seen ELSE seen
          /\ written' = IF w THEN written \cup {git_object} ELSE written
          /\ out' = Out("hash-object", file, <<>>, None, w, TRUE, h, <<>>,
                        git_object \in written, st # store)
    /\ UNCHANGED <<fs, stack>>

\* Commands::CatFile { pretty_print, hash }
CatFile(pretty_print, h) ==
    /\ Idle
    /\ LET git_object == FromSha1Hash(store, h)
       IN out' = IF ~pretty_print
                 THEN Out("cat-file", <<>>, h, None, FALSE, TRUE, <<>>, <<>>, FALSE, FALSE)
                 ELSE IF ~git_object.ok
                 THEN Out("cat-file", <<>>, h, None, TRUE, FALSE, <<>>, <<>>, FALSE, FALSE)
                 ELSE Out("cat-file", <<>>, h, None, TRUE, TRUE, parse_as_blob(git_object),
                          <<>>, FALSE, FALSE)
    /\ UNCHANGED <<fs, store, stack, seen, written>>

\* format!("{:06}", mode)
RECURSIVE Pad6(_)
Pad6(digits) == IF Len(digits) >= 6 THEN digits ELSE Pad6(<<48>> \o digits)

\* impl Display for TreeEntry: "{:06} {} {}    {}"
TreeEntry_fmt(e) ==
    Pad6(to_string(e.mode)) \o SP \o as_str(e.kind) \o SP \o e.hash \o <<32, 32, 32, 32>> \o e.name

\* Commands::LsTree { name_only, hash }
LsTree(name_only, h) ==
    /\ Idle
    /\ LET git_object == FromSha1Hash(store, h)
           tree == parse_as_tree(store, git_object)
       IN out' = IF ~git_object.ok \/ ~tree.ok
                 THEN Out("ls-tree", <<>>, h, None, name_only, FALSE, <<>>, <<>>, FALSE, FALSE)
                 ELSE Out("ls-tree", <<>>, h, None, name_only, TRUE, <<>>,
                          [i \in 1..Len(tree.entries) |->
                              IF name_only THEN tree.entries[i].name
                              ELSE TreeEntry_fmt(tree.entries[i])],
                          FALSE, FALSE)
    /\ UNCHANGED <<fs, store, stack, seen, written>>

\* the commit objects written so far
CommitCount == Cardinality({o \in written : o.kind = "commit"})

\* Commands::CommitTree { tree_hash, parent, message }, run at clock reading now
CommitTree(tree_hash, parent, message, now) ==
    /\ Idle
    /\ \E commit \in {FromCommit(tree_hash, parent, message, get_timestamp_str(now[1], now[2]))} :
          /\ store' = write(store, commit)
          /\ written' = written \cup {commit}
          /\ out' = Out("commit-tree", <<>>, tree_hash, parent, FALSE, TRUE, hash(commit),
                        <<message>>, commit \in written, store' # store)
    /\ UNCHANGED <<fs, stack, seen>>

(***************************************************************************)
(* main: write-tree, one step per directory entry of the walk              *)
(***************************************************************************)
\* Commands::WriteTree: GitObject::from(Path::new(".")) lists the root, which
\* also holds the .git directory
WriteTreeBegin ==
    /\ Idle
    /\ \E order \in Perms(read_dir(fs, <<>>) \cup {DOT_GIT}) :
           stack' = <<Frame(<<>>, order)>>
    /\ out' = NoOut
    /\ UNCHANGED <<fs, store, seen, written>>

SetTop(f) == [stack EXCEPT ![Len(stack)] = f]

\* if name == ".git" { continue; }
WalkSkipGit ==
    /\ ~Idle
    /\ Top.todo # <<>>
    /\ IsSkippedName(Head(Top.todo))
    /\ stack' = SetTop([Top EXCEPT !.todo = Tail(Top.todo)])
    /\ UNCHANGED <<fs, store, out, seen, written>>

\* if entry_path.is_dir() && read_dir(&entry_path).next().is_none() { continue; }
WalkSkipEmpty ==
    /\ ~Idle
    /\ Top.todo # <<>>
    /\ ~IsSkippedName(Head(Top.todo))
    /\ IsEmptyDir(fs, Top.path \o <<Head(Top.todo)>>)
    /\ stack' = SetTop([Top EXCEPT !.todo = Tail(Top.todo)])
    /\ UNCHANGED <<fs, store, out, seen, written>>

\* a file child whose blob is built and entered into the tree but not written
WalkBlob_unwritten ==
    /\ ~Idle
    /\ Top.todo # <<>>
    /\ ~IsSkippedName(Head(Top.todo))
    /\ is_file(fs, Top.path \o <<Head(Top.todo)>>)
    /\ LET entry_path == Top.path \o <<Head(Top.todo)>>
           git_object == BlobFromPath(fs, entry_path)
           tree_entry == TreeEntry(ModeOf(fs, entry_path), git_object.kind, hash(git_object),
                                   to_string_lossy(Head(Top.todo)))
       IN stack' = SetTop([Top EXCEPT !.todo = Tail(Top.todo),
                                      !.tree_entries = Append(Top.tree_entries, tree_entry)])
    /\ UNCHANGED <<fs, store, out, seen, written>>

\* a file child: build the blob, write it, push its entry
WalkBlob ==
    /\ ~Idle
    /\ Top.todo # <<>>
    /\ ~IsSkippedName(Head(Top.todo))
    /\ is_file(fs, Top.path \o <<Head(Top.todo)>>)
    /\ LET entry_path == Top.path \o <<Head(Top.todo)>>
           git_object == BlobFromPath(fs, entry_path)
           tree_entry == TreeEntry(ModeOf(fs, entry_path), git_object.kind, hash(git_object),
                                   to_string_lossy(Head(Top.todo)))
       IN /\ store' = write(store, git_object)
          /\ written' = written \cup {git_object}
          /\ stack' = SetTop([Top EXCEPT !.todo = Tail(Top.todo),
                                         !.tree_entries = Append(Top.tree_entries, tree_entry)])
    /\ UNCHANGED <<fs, out, seen>>

\* a directory child that has entries: recurse into it
WalkDescend ==
    /\ ~Idle
    /\ Top.todo # <<>>
    /\ ~IsSkippedName(Head(Top.todo))
    /\ is_dir(fs, Top.path \o <<Head(Top.todo)>>)
    /\ ~IsEmptyDir(fs, Top.path \o <<Head(Top.todo)>>)
    /\ \E order \in Perms(read_dir(fs, Top.path \o <<Head(Top.todo)>>)) :
           stack' = Append(stack, Frame(Top.path \o <<Head(Top.todo)>>, order))
    /\ UNCHANGED <<fs, store, out, seen, written>>

\* the recursive call returns the child's Tree; the parent writes it and
\* pushes its entry
WalkReturn ==
    /\ Len(stack) > 1
    /\ Top.todo = <<>>
    /\ LET git_object == TreeFromEntries(Top.tree_entries)
           parent == stack[Len(stack) - 1]
           tree_entry == TreeEntry(ModeOf(fs, Top.path), git_object.kind, hash(git_object),
                                   to_string_lossy(Head(parent.todo)))
       IN /\ store' = write(store, git_object)
          /\ written' = written \cup {git_object}
          /\ stack' = [SubSeq(stack, 1, Len(stack) - 1) EXCEPT ![Len(stack) - 1] =
                          [parent EXCEPT !.todo = Tail(parent.todo),
                                         !.tree_entries = Append(parent.tree_entries, tree_entry)]]
    /\ UNCHANGED <<fs, out, seen>>

\* the root's Tree is returned to main: tree.write(); println!(tree.hash())
WriteTreeEnd ==
    /\ Len(stack) = 1
    /\ Top.todo = <<>>
    /\ LET tree == TreeFromEntries(Top.tree_entries)
           st == write(store, tree)
       IN /\ store' = st
          /\ written' = written \cup {tree}
          /\ out' = Out("write-tree", <<>>, <<>>, None, FALSE, TRUE, hash(tree), <<>>,
                        tree \in written, st # store)
    /\ stack' = <<>>
    /\ UNCHANGED <<fs, seen>>

Walk ==
    \/ WriteTreeBegin
    \/ WalkSkipGit
    \/ WalkSkipEmpty
    \/ WalkBlob
    \/ WalkDescend
    \/ WalkReturn
    \/ WriteTreeEnd

\* hash-object, cat-file, ls-tree and write-tree runs, one after the other
Next ==
    \/ \E file \in FilePaths(fs), w \in BOOLEAN : HashObject(file, w)
    \/ \E pretty_print \in BOOLEAN, h \in HashArgs(store) : CatFile(pretty_print, h)
    \/ \E name_only \in BOOLEAN, h \in HashArgs(store) : LsTree(name_only, h)
    \/ Walk

Spec == Init /\ [][Next]_vars

\* write-tree and commit-tree runs, one after the other
NextCommit ==
    \/ /\ CommitCount < MaxCommits
       /\ \E tree_hash \in CommitArgs(store),
             parent \in {None} \cup {Some(h) : h \in CommitArgs(store)},
             message \in Messages, now \in Clock :
              CommitTree(tree_hash, parent, message, now)
    \/ Walk

SpecCommit == InitCommit /\ [][NextCommit]_vars

SpecWalk == InitWalk /\ [][Walk]_vars

(***************************************************************************)
(* Object files that this program did not write: any tool may put a file   *)
(* under .git/objects, and cat-file / ls-tree read whatever is there.      *)
(***************************************************************************)
\* most complete entries in a foreign tree's content
MaxEntries == 2

\* the blob "x", written by hash-object -w
BlobX == GitObject("blob", 1, <<120>>)

\* "100644 a\0" and the 20 raw bytes of BlobX's digest
EntryX == TreeEntry_serialize(TreeEntry(FILE_MODE, "blob", hash(BlobX), NAME_A))

\* how much of one more entry follows the complete ones: nothing, part of the
\* mode, mode and name without the NUL, the NUL and 0, 10 or 19 digest bytes
PrefixLens == {0, 3, 8, 9, 19, 28}

ForeignContents ==
    {Concat([k \in 1..m |-> EntryX]) \o SubSeq(EntryX, 1, n) : m \in 0..MaxEntries, n \in PrefixLens}

\* the size a header may state for content c: its length, or less, or more
ForeignSizes(c) == {Len(c), 0, Len(EntryX) * (Len(c) \div Len(EntryX)), Len(c) + 1}

ForeignBuffers ==
    UNION {{as_str(kind) \o SP \o to_string(size) \o NUL \o c : size \in ForeignSizes(c)}
           : <<kind, c>> \in {"blob", "tree"} \X ForeignContents}

InitForeign ==
    /\ fs = EmptyDir
    /\ \E buffer \in ForeignBuffers :
           store = (ObjectPath(to_hex(Sha1(buffer))) :> ZlibEncode(buffer)) @@ write(EmptyStore, BlobX)
    /\ stack = <<>>
    /\ out = NoOut
    /\ seen = [f \in {} |-> <<>>]
    /\ written = {BlobX}

\* cat-file and ls-tree runs on a store that holds a foreign file
NextRead ==
    \/ \E pretty_print \in BOOLEAN, h \in HashArgs(store) : CatFile(pretty_print, h)
    \/ \E name_only \in BOOLEAN, h \in HashArgs(store) : LsTree(name_only, h)

SpecDecode == InitForeign /\ [][NextRead]_vars

(***************************************************************************)
(* Helpers of the properties: what a store file holds, read without the    *)
(* program's decoder                                                       *)
(***************************************************************************)
Stored(h) == Len(h) >= 2 /\ ObjectPath(h) \in DOMAIN store

\* the decompressed bytes of the file a hash string names
RawOf(h) == ZlibDecode(store[ObjectPath(h)]).data

\* the bytes before the first space, and the bytes after the first NUL
KindToken(raw) == IF Position(raw, 0, 32) < 0 THEN raw ELSE Slice(raw, 0, Position(raw, 0, 32))
ContentOf(raw) == IF Position(raw, 0, 0) < 0 THEN <<>> ELSE Slice(raw, Position(raw, 0, 0) + 1, Len(raw))

\* the header states a size, and it is not the number of bytes after the NUL
HeaderSizeDiffers(raw) ==
    LET sp == Position(raw, 0, 32)
        nl == Position(raw, 0, 0)
    IN /\ sp >= 0
       /\ nl > sp
       /\ parse_uint(Slice(raw, sp + 1, nl)) >= 0
       /\ parse_uint(Slice(raw, sp + 1, nl)) # Len(raw) - nl - 1

\* walking tree content c entry by entry from offset i: the NUL that ends the
\* name of the last entry is followed by fewer than 20 bytes
RECURSIVE LastEntryShort(_, _)
LastEntryShort(c, i) ==
    IF i >= Len(c) \/ Position(c, i, 0) < 0 THEN FALSE
    ELSE IF Len(c) - (i + Position(c, i, 0) + 1) < DigestLen THEN TRUE
    ELSE LastEntryShort(c, i + Position(c, i, 0) + 1 + DigestLen)

StartsWith(s, pre) == Len(s) >= Len(pre) /\ SubSeq(s, 1, Len(pre)) = pre

\* the position of the k-th line feed of c (0 for k = 0), and the k-th line
NthLF(c, k) ==
    LET P == {i \in 1..Len(c) : c[i] = 10}
    IN IF k = 0 THEN 0 ELSE CHOOSE i \in P : Cardinality({j \in P : j <= i}) = k
LineCount(c) == Cardinality({i \in 1..Len(c) : c[i] = 10})
Line(c, k) == SubSeq(c, NthLF(c, k - 1) + 1, NthLF(c, k) - 1)

\* directory d holds a file somewhere below it, .git entries excluded
RECURSIVE HasFile(_)
HasFile(d) ==
    \E n \in DOMAIN d :
        /\ ~IsSkippedName(n)
        /\ IF d[n].dir THEN HasFile(d[n].children) ELSE TRUE

EmptyTreeHash == hash(TreeFromEntries(<<>>))

(***************************************************************************)
(* Properties                                                              *)
(***************************************************************************)

\* C1: every object that was written (kind K, content C) is decoded from its
\* stored bytes as an Object of kind K, size |C| and content C.
C1_RoundTrip ==
    \A o \in written :
        FromSha1Hash(store, hash(o)) =
            [ok |-> TRUE, err |-> "", kind |-> o.kind, size |-> Len(o.content), content |-> o.content]

\* C2: at every point of a write-tree walk, every object in the store loads,
\* and every Tree in the store decodes to entries whose objects are all in
\* the store already.
C2_ChildrenBeforeParent ==
    \A h \in StoredHashes(store) :
        LET o == FromSha1Hash(store, h)
        IN /\ o.ok
           /\ o.kind = "tree" =>
                 /\ parse_as_tree(store, o).ok
                 /\ \A k \in 1..Len(parse_as_tree(store, o).entries) :
                        Stored(parse_as_tree(store, o).entries[k].hash)

\* C2 witness: the walk is still running and a Tree that has entries is
\* already in the store.
C2_Witness ==
    /\ ~Idle
    /\ C2_ChildrenBeforeParent
    /\ \E h \in StoredHashes(store) :
           /\ FromSha1Hash(store, h).kind = "tree"
           /\ Len(parse_as_tree(store, FromSha1Hash(store, h)).entries) >= 1

\* C3: when a directory's entries are all collected, every other order of
\* collecting them gives the same Tree (content, hence digest), and the names
\* in that content ascend byte-lexicographically.
C3_Canonical ==
    \A i \in 1..Len(stack) :
        stack[i].todo = <<>> =>
            LET es == stack[i].tree_entries
                t == parse_as_tree(store, TreeFromEntries(es))
            IN /\ \A q \in Perms(1..Len(es)) :
                      TreeFromEntries([k \in 1..Len(es) |-> es[q[k]]]) = TreeFromEntries(es)
               /\ t.ok
               /\ \A k \in 1..(Len(t.entries) - 1) : StrLeq(t.entries[k].name, t.entries[k + 1].name)

\* C4: every store file lies at objects/<2 hex>/<38 hex> of the digest of its
\* own bytes; hash-object prints for a file the digest its first -w run
\* printed; after -w the object is in the store; and writing an object that
\* was written before leaves the store as it was.
C4_ContentAddressed ==
    /\ \A p \in DOMAIN store :
           LET z == ZlibDecode(store[p])
               hex == to_hex(Sha1(z.data))
           IN /\ z.ok
              /\ IsHexDigest(hex)
              /\ p = ObjectsDir \o SubSeq(hex, 1, 2) \o SLASH \o SubSeq(hex, 3, 2 * DigestLen)
    /\ out.cmd = "hash-object" =>
           /\ out.file \in DOMAIN seen => out.value = seen[out.file]
           /\ out.flag => Stored(out.value) /\ out.file \in DOMAIN seen
           /\ (out.flag /\ out.existed) => ~out.changed

\* C4 witness: hash-object -w has just written a blob that was written before.
C4_Witness ==
    /\ out.cmd = "hash-object"
    /\ out.flag
    /\ out.existed
    /\ ~out.changed
    /\ out.value = seen[out.file]

\* C5: ls-tree on a stored Tree whose content ends in an entry with fewer
\* than 20 bytes after the NUL of its name ends in an error.
C5_ShortTreeRejected ==
    (/\ out.cmd = "ls-tree"
     /\ Stored(out.arg)
     /\ KindToken(RawOf(out.arg)) = as_str("tree")
     /\ LastEntryShort(ContentOf(RawOf(out.arg)), 0))
    => ~out.ok

\* C6: cat-file -p on a digest whose stored object is a Tree or a Commit ends
\* in an error.
C6_CatFileRejectsNonBlob ==
    (/\ out.cmd = "cat-file"
     /\ out.flag
     /\ Stored(out.arg)
     /\ KindToken(RawOf(out.arg)) \in {as_str("tree"), as_str("commit")})
    => ~out.ok

\* the layout of commit content c for (tree, parent, message)
CommitLayout(c, tree, parent, message) ==
    LET a == IF parent.some THEN 3 ELSE 2
    IN /\ LineCount(c) >= a + 3
       /\ Line(c, 1) = TREE_SP \o tree
       /\ parent.some => Line(c, 2) = PARENT_SP \o parent.hash
       /\ ~parent.some => ~StartsWith(Line(c, 2), PARENT_SP)
       /\ StartsWith(Line(c, a), AUTHOR \o SP)
       /\ StartsWith(Line(c, a + 1), COMMITTER \o SP)
       /\ Line(c, a + 2) = <<>>
       /\ SubSeq(c, NthLF(c, a + 2) + 1, Len(c)) = message \o LF

\* C7: the Commit that commit-tree built for digests (tree, parent) and a
\* message has the lines "tree <tree>", "parent <parent>" exactly if a parent
\* was given, an author line, a committer line, a blank line, and then the
\* message and one line feed; its size is the length of that content.
C7_CommitLayout ==
    (/\ out.cmd = "commit-tree"
     /\ IsHexDigest(out.arg)
     /\ out.parent.some => IsHexDigest(out.parent.hash))
    => \E o \in written :
           /\ o.kind = "commit"
           /\ hash(o) = out.value
           /\ o.size = Len(o.content)
           /\ CommitLayout(o.content, out.arg, out.parent, out.lines[1])

\* C7 witness: commit-tree has run with a tree digest and a parent digest.
C7_Witness ==
    /\ out.cmd = "commit-tree"
    /\ IsHexDigest(out.arg)
    /\ out.parent.some
    /\ IsHexDigest(out.parent.hash)
    /\ C7_CommitLayout

\* C8: cat-file, ls-tree and commit-tree given a string that is no 40-digit
\* lower-case hex digest fail and leave the store as it was.
C8_InvalidHashRejected ==
    (/\ out.cmd \in {"cat-file", "ls-tree", "commit-tree"}
     /\ \/ ~IsHexDigest(out.arg)
        \/ out.parent.some /\ ~IsHexDigest(out.parent.hash))
    => (~out.ok /\ ~out.changed /\ \A o \in written : o.kind # "commit")

\* C9: every written Object has size = |content|, and loading a store file
\* whose header size is not the number of bytes after the NUL ends in an
\* error.
C9_SizeInvariant ==
    /\ \A o \in written : o.size = Len(o.content)
    /\ (/\ out.cmd \in {"cat-file", "ls-tree"}
        /\ out.cmd = "cat-file" => out.flag
        /\ Stored(out.arg)
        /\ HeaderSizeDiffers(RawOf(out.arg)))
       => ~out.ok

\* the child named n of the directory at path is a file, or a directory that
\* holds a file somewhere below it; .git is neither
Representable(path, n) ==
    /\ ~IsSkippedName(n)
    /\ \/ is_file(fs, path \o <<n>>)
       \/ HasFile(NodeAt(fs, path \o <<n>>).children)

\* C10: of the children a directory's loop is done with, exactly the files and
\* the directories that hold a file below them (.git excluded) have an entry,
\* and no entry references the Tree with zero entries.
C10_NoEmptyDirEntry ==
    \A i \in 1..Len(stack) :
        LET f == stack[i]
            handled == SubSeq(f.listing, 1, Len(f.listing) - Len(f.todo))
        IN /\ Len(f.tree_entries) =
                  Cardinality({k \in 1..Len(handled) : Representable(f.path, handled[k])})
           /\ \A k \in 1..Len(f.tree_entries) : f.tree_entries[k].hash # EmptyTreeHash

====
